---- MODULE Spec2Model ----
(***************************************************************************)
(* Consistency core of the rented-room console: the Rooms page (room /     *)
(* tenant assignment over non-atomic remote writes), the Payments page     *)
(* (payment status lifecycle, date filter and totals), the notification    *)
(* provider (cache, realtime subscription, session) and page loads in      *)
(* flight across a property switch.  The remote tables are the db*         *)
(* variables; React state keeps the names it has in the source.            *)
(***************************************************************************)
EXTENDS Integers, FiniteSets, Sequences, TLC

\* ---- bounds of the model ------------------------------------------------
NumRooms == 2
NumTenants == 2
NumProperties == 2
NumPayments == 2
MaxAmount == 2
MaxDay == 2
NumNotifications == 2
MaxEffects == 3

RoomIds == 1..NumRooms
TenantIds == 1..NumTenants
PropertyIds == 1..NumProperties
PaymentIds == 1..NumPayments
Amounts == 1..MaxAmount
Days == 1..MaxDay
NotificationIds == 1..NumNotifications

\* null / undefined identifiers
NoTenant == 0
NoRoom == 0
NoProperty == 0
NoPayment == 0
\* a date that is null in a row, or '' in a date input
NoDate == 0
\* price numeric NOT NULL DEFAULT 0
DefaultPrice == 0
\* a price that is not there: the key is missing from the object read
UndefinedPrice == -1
\* Texts are sequences of words, " " being white space.  This one is the text
\* that is not there: a column the select left out, a key the form does not
\* send, a column that is null
UndefinedText == <<"undefined">>

RoomStatus == {"vacant", "occupied", "maintenance"}
TenantStatus == {"active", "inactive"}

\* error banner texts set by the handlers of the Rooms page
NoError == "null"
ErrLoadV1 == "Failed to load rooms"
ErrLoadV2 == "Gagal memuat data kamar"
ErrAssignV1 == "Failed to assign tenant"
ErrAssignV2 == "Gagal menambahkan penyewa ke kamar"
ErrRemoveV1 == "Failed to remove tenant"
ErrVacateV2 == "Gagal mengosongkan kamar"
ErrDeleteV1 == "Failed to delete room"
ErrDeleteV2 == "Gagal menghapus kamar. Silakan coba lagi."
ErrSaveV1 == "Failed to save room"
ErrSaveV2 == "Gagal menyimpan data kamar. Pastikan semua field terisi dengan benar."
ErrNameRequired == "Nama kamar harus diisi"
ErrFloorRequired == "Lantai harus diisi"
ErrDuplicate == "Gagal menduplikasi kamar"

VARIABLES
  version,            \* which Rooms page is running: 1 = earlier, 2 = later
  selectedProperty,   \* useProperty().selectedProperty (its id)
  dbRooms,            \* remote table 'rooms', by id
  dbTenants,          \* remote table 'tenants', by id
  rooms,              \* useState<Room[]>: rows loaded by loadRooms
  tenants,            \* useState<Tenant[]>: rows loaded by loadRooms
  selectedRoom,       \* useState<Room | undefined>
  selectedTenant,     \* useState<Tenant | undefined>
  showTenantSelector,
  showTenantDetails,
  isLoading,
  error,
  last                \* the last completed handler call and what it did

roomVars == <<version, selectedProperty, dbRooms, dbTenants, rooms, tenants,
              selectedRoom, selectedTenant, showTenantSelector,
              showTenantDetails, isLoading, error, last>>

VARIABLES
  dbPayments,         \* remote table 'payments', by id
  allPayments,        \* useState<Payment[]>: rows loaded by loadData
  selectedPayment,    \* useState<Payment | undefined>
  showPaymentForm,
  showPaymentDetails,
  paymentsLoading,    \* isLoading of the Payments page
  paymentsError,      \* error of the Payments page
  lastSubmit          \* the last completed handlePaymentSubmit call

payVars == <<dbPayments, allPayments, selectedPayment, showPaymentForm,
             showPaymentDetails, paymentsLoading, paymentsError, lastSubmit>>

VARIABLES
  dateRange           \* useState<{ start: string; end: string }> of the Payments page

filterVars == <<dateRange>>

VARIABLES
  session,            \* whether supabase.auth holds a session
  dbNotifications,    \* remote table 'notifications', by id
  notifications,      \* useState<Notification[]> of the NotificationProvider
  effects,            \* the runs of the provider's effect, oldest first
  hubLast             \* the last completed call of the provider

hubVars == <<session, dbNotifications, notifications, effects, hubLast>>

VARIABLES
  inflight            \* the loads of the pages whose answer has not arrived

flightVars == <<inflight>>

VARIABLES
  showRoomForm,       \* whether the Rooms page renders RoomForm
  editingRoom         \* useState<Room | undefined>: the room RoomForm edits

formVars == <<showRoomForm, editingRoom>>

VARIABLES
  calls               \* the calls of the provider's functions whose remote
                      \* call has been sent and has not answered

callVars == <<calls>>

VARIABLES
  roles,              \* table 'backoffice_users': the role of each user
  request,            \* the request the user-details function is serving
  response            \* its response to that request

edgeVars == <<roles, request, response>>

\* the state of the parts that the Rooms and Payments handlers leave alone
restVars == <<filterVars, hubVars, flightVars, formVars, callVars, edgeVars>>

vars == <<roomVars, payVars, restVars>>

\* a notification row that is not stored
AbsentNotification == [exists |-> FALSE, status |-> "none", target |-> NoProperty]

\* what a completed call of the provider is remembered by: every one of its
\* functions catches what it throws, so the promise it returns resolves
HubCall(op, remote) == [op |-> op, remote |-> remote, outcome |-> "resolved"]

\* no load is under way
FlightIdle == inflight = {}

\* the provider while it is not the part under study: not mounted
HubIdle ==
  /\ session = FALSE
  /\ dbNotifications = [n \in NotificationIds |-> AbsentNotification]
  /\ notifications = <<>>
  /\ effects = <<>>
  /\ hubLast = HubCall("none", "none")
  /\ calls = {}

\* the user-details function while it is not the part under study: nothing
\* received, nobody in backoffice_users
NoRequest == [method |-> "none", authorization |-> 0, body |-> <<>>]
NoResponse == [status |-> 0, kind |-> "none", users |-> <<>>, error |-> <<>>]
EdgeIdle ==
  /\ roles = <<>>
  /\ request = NoRequest
  /\ response = NoResponse

ErrLoad == IF version = 1 THEN ErrLoadV1 ELSE ErrLoadV2
ErrAssign == IF version = 1 THEN ErrAssignV1 ELSE ErrAssignV2
ErrVacate == IF version = 1 THEN ErrRemoveV1 ELSE ErrVacateV2
ErrDelete == IF version = 1 THEN ErrDeleteV1 ELSE ErrDeleteV2

\* ---- remote tables -------------------------------------------------------
AbsentRoom == [exists |-> FALSE, property_id |-> NoProperty,
               status |-> "vacant", tenant_id |-> NoTenant,
               name |-> UndefinedText, floor |-> UndefinedText,
               price |-> DefaultPrice]

\* every row of a scope-partitioned table belongs to one property
PropertyOf(id) == ((id - 1) % NumProperties) + 1

\* .from('rooms').update({status, tenant_id}).eq('id', id): rows that do not
\* match are left alone and no error is raised for them
UpdateRoom(db, id, status, tenantId) ==
  [r \in RoomIds |->
     IF r = id /\ db[r].exists
       THEN [db[r] EXCEPT !.status = status, !.tenant_id = tenantId]
       ELSE db[r]]

\* .from('tenants').update({room_id}).eq('id', id)
UpdateTenant(db, id, roomId) ==
  [t \in TenantIds |-> IF t = id THEN [db[t] EXCEPT !.room_id = roomId] ELSE db[t]]

\* .from('rooms').delete().eq('id', id)
DeleteRoom(db, id) == [r \in RoomIds |-> IF r = id THEN AbsentRoom ELSE db[r]]

\* ---- loadRooms -----------------------------------------------------------
\* .select('id, property_id, name, status, floor') on the later page and
\* .select('id, property_id, status, type, price, floor') on the earlier one:
\* the row as the page gets it.  tenant_id is not among the selected columns
\* of either, so it is undefined; so is price (with type and facilities) on
\* the later page and name on the earlier one
SelectRoomColumns(id, row) ==
  [id |-> id, property_id |-> row.property_id, status |-> row.status,
   tenant_id |-> NoTenant,
   name |-> IF version = 2 THEN row.name ELSE UndefinedText,
   floor |-> row.floor,
   price |-> IF version = 1 THEN row.price ELSE UndefinedPrice]

\* .select('*') on tenants
SelectTenantColumns(id, row) ==
  [id |-> id, property_id |-> row.property_id, room_id |-> row.room_id,
   status |-> row.status]

FetchRooms(db, prop) ==
  {SelectRoomColumns(r, db[r]) :
     r \in {x \in RoomIds : db[x].exists /\ db[x].property_id = prop}}

FetchTenants(db, prop) ==
  {SelectTenantColumns(t, db[t]) :
     t \in {x \in TenantIds : db[x].property_id = prop}}

\* The remote calls of a handler run one after the other and the handler
\* stops at the first that returns an error: `fails` names that call
LoadFailures == {"none", "rooms", "tenants"}
PairFailures == {"room", "tenant"} \cup LoadFailures
DeleteFailures == {"delete"} \cup LoadFailures

\* loadRooms as a function of the page state it starts from and of the
\* outcome of its two reads; the result is the page state it leaves
LoadRooms(prop, dbR, dbT, st, fails) ==
  IF prop = NoProperty THEN st
  ELSE IF fails = "rooms"
    THEN [st EXCEPT !.error = ErrLoad, !.isLoading = FALSE]
  ELSE IF fails = "tenants"
    THEN [st EXCEPT !.rooms = FetchRooms(dbR, prop), !.error = ErrLoad,
                    !.isLoading = FALSE]
  ELSE [st EXCEPT !.rooms = FetchRooms(dbR, prop),
                  !.tenants = FetchTenants(dbT, prop),
                  !.error = NoError, !.isLoading = FALSE]

PageState == [rooms |-> rooms, tenants |-> tenants, error |-> error,
              isLoading |-> isLoading]

NoRoomSel == [id |-> NoRoom, property_id |-> NoProperty, status |-> "none",
              tenant_id |-> NoTenant, name |-> UndefinedText,
              floor |-> UndefinedText, price |-> UndefinedPrice]
NoTenantSel == [id |-> NoTenant, property_id |-> NoProperty,
                room_id |-> NoRoom, status |-> "none"]

\* what a completed call is remembered by
Call(op, room, tenant, result, writes, reloaded, count) ==
  [op |-> op, room |-> room, tenant |-> tenant, result |-> result,
   writes |-> writes, reloaded |-> reloaded, count |-> count]

\* ---- Init ----------------------------------------------------------------
\* The tables as the page finds them: rooms 1..k created and vacant, no tenant
\* assigned yet, the first tenants active and the others inactive.
InitRoomsPage ==
  /\ version \in {1, 2}
  /\ selectedProperty = NoProperty
  /\ \E k \in 0..NumRooms :
       dbRooms = [r \in RoomIds |->
                    IF r <= k
                      THEN [exists |-> TRUE, property_id |-> PropertyOf(r),
                            status |-> "vacant", tenant_id |-> NoTenant,
                            name |-> <<"Kamar">>, floor |-> <<"1">>,
                            price |-> MaxAmount]
                      ELSE AbsentRoom]
  /\ \E k \in 0..NumTenants :
       dbTenants = [t \in TenantIds |->
                      [property_id |-> PropertyOf(t), room_id |-> NoRoom,
                       status |-> IF t <= k THEN "active" ELSE "inactive"]]
  /\ rooms = {}
  /\ tenants = {}
  /\ selectedRoom = NoRoomSel
  /\ selectedTenant = NoTenantSel
  /\ showTenantSelector = FALSE
  /\ showTenantDetails = FALSE
  /\ isLoading = TRUE
  /\ error = NoError
  /\ last = [op |-> "none", room |-> NoRoom, tenant |-> NoTenant,
             result |-> "none", writes |-> <<>>, reloaded |-> FALSE,
             count |-> 0]
  /\ showRoomForm = FALSE
  /\ editingRoom = NoRoomSel

\* ---- useEffect(() => loadRooms(), [selectedProperty]) --------------------
SelectProperty(prop, fails) ==
  LET st == LoadRooms(prop, dbRooms, dbTenants, PageState, fails)
  IN /\ selectedProperty' = prop
     /\ rooms' = st.rooms
     /\ tenants' = st.tenants
     /\ error' = st.error
     /\ isLoading' = st.isLoading
     /\ last' = Call("load", NoRoom, NoTenant,
                     IF fails = "none" THEN "ok" ELSE "error", <<>>, TRUE, 0)
     /\ UNCHANGED <<payVars, restVars, version, dbRooms, dbTenants, selectedRoom, selectedTenant,
                    showTenantSelector, showTenantDetails>>

\* ---- assignment ----------------------------------------------------------
\* 'Tambah Penyewa' is rendered for rooms whose loaded status is vacant
HandleAssignTenant(room) ==
  /\ room \in rooms
  /\ room.status = "vacant"
  /\ ~isLoading
  /\ selectedRoom' = room
  /\ showTenantSelector' = TRUE
  /\ last' = Call("openAssign", room.id, NoTenant, "ok", <<>>, FALSE, 0)
  /\ UNCHANGED <<payVars, restVars, version, selectedProperty, dbRooms, dbTenants, rooms, tenants,
                 selectedTenant, showTenantDetails, isLoading, error>>

\* the X button of the tenant selector
CloseTenantSelector ==
  /\ showTenantSelector
  /\ selectedRoom # NoRoomSel
  /\ showTenantSelector' = FALSE
  /\ selectedRoom' = NoRoomSel
  /\ last' = Call("closeSelector", NoRoom, NoTenant, "ok", <<>>, FALSE, 0)
  /\ UNCHANGED <<payVars, restVars, version, selectedProperty, dbRooms, dbTenants, rooms, tenants,
                 selectedTenant, showTenantDetails, isLoading, error>>

\* the tenants the selector lists
SelectableTenants == {t \in tenants : t.status = "active" /\ t.room_id = NoRoom}

\* the room row marked occupied without the tenant it is occupied by
AssignRoomWriteStatusOnly(db, roomId, tenantId) ==
  UpdateRoom(db, roomId, "occupied", NoTenant)

\* first write of the pair: the room row
AssignRoomWrite(db, roomId, tenantId) == UpdateRoom(db, roomId, "occupied", tenantId)

\* the tenant update without its .eq('id', tenantId) filter
AssignTenantWriteUnfiltered(db, tenantId, roomId) ==
  [t \in TenantIds |-> [db[t] EXCEPT !.room_id = roomId]]

\* second write of the pair: the tenant row
AssignTenantWrite(db, tenantId, roomId) == UpdateTenant(db, tenantId, roomId)

\* a paired write reloading as soon as its room write has succeeded
ReloadIssuedAfterRoomWrite(roomOk, tenantOk) == roomOk

\* `await loadRooms()` of a paired write comes after `if (roomError) throw
\* roomError` and `if (tenantError) throw tenantError`
ReloadIssued(roomOk, tenantOk) == roomOk /\ tenantOk

HandleTenantSelection(tenantId, fails) ==
  /\ showTenantSelector
  /\ selectedRoom # NoRoomSel
  /\ ~isLoading
  /\ \E t \in SelectableTenants : t.id = tenantId
  /\ LET roomId == selectedRoom.id
         roomOk == fails # "room"
         tenantOk == fails # "tenant"
         success == roomOk /\ tenantOk
         dbR == IF roomOk THEN AssignRoomWrite(dbRooms, roomId, tenantId) ELSE dbRooms
         dbT == IF success THEN AssignTenantWrite(dbTenants, tenantId, roomId)
                ELSE dbTenants
         st0 == [PageState EXCEPT !.isLoading = TRUE, !.error = NoError]
         reloads == ReloadIssued(roomOk, tenantOk)
         st == IF reloads
                 THEN LoadRooms(selectedProperty, dbR, dbT, st0, fails)
                 ELSE [st0 EXCEPT !.error = ErrAssign]
     IN /\ dbRooms' = dbR
        /\ dbTenants' = dbT
        /\ rooms' = st.rooms
        /\ tenants' = st.tenants
        /\ error' = st.error
        /\ isLoading' = FALSE
        /\ showTenantSelector' = IF success THEN FALSE ELSE showTenantSelector
        /\ selectedRoom' = IF success THEN NoRoomSel ELSE selectedRoom
        /\ last' = Call("assign", roomId, tenantId,
                        IF success THEN "ok" ELSE "error",
                        IF ~roomOk THEN <<"room:failed">>
                        ELSE IF ~tenantOk THEN <<"room", "tenant:failed">>
                        ELSE <<"room", "tenant">>,
                        reloads, 0)
  /\ UNCHANGED <<payVars, restVars, version, selectedProperty, selectedTenant, showTenantDetails>>

\* ---- tenant details and vacating -----------------------------------------
\* 'Detail Penyewa' is rendered for rooms whose loaded status is occupied
HandleViewTenant(room) ==
  /\ room \in rooms
  /\ room.status = "occupied"
  /\ ~isLoading
  /\ LET found == {t \in tenants : t.id = room.tenant_id}
         opens == room.tenant_id # NoTenant /\ found # {}
     IN /\ selectedTenant' = IF opens THEN CHOOSE t \in found : TRUE ELSE selectedTenant
        /\ selectedRoom' = IF opens THEN room ELSE selectedRoom
        /\ showTenantDetails' = IF opens THEN TRUE ELSE showTenantDetails
        /\ last' = Call("viewTenant", room.id, room.tenant_id,
                        IF opens THEN "ok" ELSE "noop", <<>>, FALSE, 0)
  /\ UNCHANGED <<payVars, restVars, version, selectedProperty, dbRooms, dbTenants, rooms, tenants,
                 showTenantSelector, isLoading, error>>

\* the handler without its early return
VacateGuardMissing(room) == FALSE

\* if (!room.tenant_id) return;
VacateGuard(room) == room.tenant_id = NoTenant

\* first write of the pair: the room row
VacateRoomWrite(db, roomId) == UpdateRoom(db, roomId, "vacant", NoTenant)

\* second write of the pair: the tenant row named by the room passed in
VacateTenantWrite(db, tenantId) == UpdateTenant(db, tenantId, NoRoom)

\* handleVacateRoom (later page: 'Kosongkan' on an occupied card, 'Hapus
\* Penyewa' in the details modal, after window.confirm) and handleRemoveTenant
\* (earlier page: 'Hapus Penyewa' in the details modal, no confirm)
HandleVacateRoom(room, confirmed, fails) ==
  /\ ~isLoading
  /\ \/ version = 2 /\ room \in rooms /\ room.status = "occupied"
     \/ showTenantDetails /\ selectedTenant # NoTenantSel
          /\ selectedRoom # NoRoomSel /\ room = selectedRoom
  /\ version = 1 => confirmed
  /\ (VacateGuard(room) \/ ~confirmed) => fails = "none"
  /\ LET proceeds == ~VacateGuard(room) /\ confirmed
         roomOk == fails # "room"
         tenantOk == fails # "tenant"
         success == proceeds /\ roomOk /\ tenantOk
         dbR == IF proceeds /\ roomOk THEN VacateRoomWrite(dbRooms, room.id)
                ELSE dbRooms
         dbT == IF success THEN VacateTenantWrite(dbTenants, room.tenant_id)
                ELSE dbTenants
         st0 == [PageState EXCEPT !.isLoading = TRUE, !.error = NoError]
         reloads == proceeds /\ ReloadIssued(roomOk, tenantOk)
         st == IF ~proceeds THEN PageState
               ELSE IF reloads
                 THEN LoadRooms(selectedProperty, dbR, dbT, st0, fails)
               ELSE [st0 EXCEPT !.error = ErrVacate, !.isLoading = FALSE]
         closes == success /\ version = 1
     IN /\ dbRooms' = dbR
        /\ dbTenants' = dbT
        /\ rooms' = st.rooms
        /\ tenants' = st.tenants
        /\ error' = st.error
        /\ isLoading' = IF proceeds THEN FALSE ELSE isLoading
        /\ showTenantDetails' = IF closes THEN FALSE ELSE showTenantDetails
        /\ selectedTenant' = IF closes THEN NoTenantSel ELSE selectedTenant
        /\ selectedRoom' = IF closes THEN NoRoomSel ELSE selectedRoom
        /\ last' = Call("vacate", room.id, room.tenant_id,
                        IF VacateGuard(room) THEN "noop"
                        ELSE IF ~confirmed THEN "declined"
                        ELSE IF success THEN "ok" ELSE "error",
                        IF ~proceeds THEN <<>>
                        ELSE IF ~roomOk THEN <<"room:failed">>
                        ELSE IF ~tenantOk THEN <<"room", "tenant:failed">>
                        ELSE <<"room", "tenant">>,
                        reloads, 0)
  /\ UNCHANGED <<payVars, restVars, version, selectedProperty, showTenantSelector>>

NextOccupancy ==
  \/ \E p \in PropertyIds, f \in LoadFailures : SelectProperty(p, f)
  \/ \E room \in rooms : HandleAssignTenant(room)
  \/ CloseTenantSelector
  \/ \E t \in TenantIds, f \in PairFailures : HandleTenantSelection(t, f)
  \/ \E room \in rooms : HandleViewTenant(room)
  \/ \E room \in rooms \cup {selectedRoom}, cf \in BOOLEAN, f \in PairFailures :
       HandleVacateRoom(room, cf, f)

\* ---- deleting a room -----------------------------------------------------
\* the later page calls roomService.delete(id), and roomService is not among
\* its imports: the call throws before any request is made
RoomServiceImported == FALSE

\* tenants.filter(tenant => tenant.room_id === id) over the loaded tenants
AssignedTenants(roomId) == {t \in tenants : t.room_id = roomId}

\* 'Hapus Kamar' / 'Hapus' is rendered for rooms whose loaded status is vacant
HandleDeleteRoom(room, confirmed, fails) ==
  /\ room \in rooms
  /\ room.status = "vacant"
  /\ ~isLoading
  /\ (AssignedTenants(room.id) # {} \/ ~confirmed
        \/ (version = 2 /\ ~RoomServiceImported)) => fails = "none"
  /\ LET count == Cardinality(AssignedTenants(room.id))
         proceeds == count = 0 /\ confirmed
         issued == proceeds /\ (version = 1 \/ RoomServiceImported)
         deleteOk == fails # "delete"
         success == issued /\ deleteOk
         dbR == IF success THEN DeleteRoom(dbRooms, room.id) ELSE dbRooms
         st0 == IF version = 1
                  THEN [PageState EXCEPT !.isLoading = TRUE, !.error = NoError]
                  ELSE [PageState EXCEPT !.isLoading = TRUE]
         st == IF ~proceeds THEN PageState
               ELSE IF success
                 THEN LoadRooms(selectedProperty, dbR, dbTenants, st0, fails)
               ELSE [st0 EXCEPT !.error = ErrDelete, !.isLoading = FALSE]
     IN /\ dbRooms' = dbR
        /\ rooms' = st.rooms
        /\ tenants' = st.tenants
        /\ error' = st.error
        /\ isLoading' = IF proceeds THEN FALSE ELSE isLoading
        /\ last' = Call("delete", room.id, NoTenant,
                        IF count > 0 THEN "rejected"
                        ELSE IF ~confirmed THEN "declined"
                        ELSE IF success THEN "ok" ELSE "error",
                        IF ~issued THEN <<>>
                        ELSE IF deleteOk THEN <<"delete">> ELSE <<"delete:failed">>,
                        success, count)
  /\ UNCHANGED <<payVars, restVars, version, selectedProperty, dbTenants, selectedRoom,
                 selectedTenant, showTenantSelector, showTenantDetails>>

NextRooms ==
  \/ NextOccupancy
  \/ \E room \in rooms, cf \in BOOLEAN, f \in DeleteFailures :
       HandleDeleteRoom(room, cf, f)

\* ---- the room form and duplicating a room ---------------------------------
\* String.prototype.trim over a text
RECURSIVE TrimStart(_)
TrimStart(text) ==
  IF text # <<>> /\ Head(text) = " " THEN TrimStart(Tail(text)) ELSE text

RECURSIVE TrimEnd(_)
TrimEnd(text) ==
  IF text # <<>> /\ text[Len(text)] = " "
    THEN TrimEnd(SubSeq(text, 1, Len(text) - 1))
    ELSE text

Trim(text) == TrimEnd(TrimStart(text))

\* !text?.trim()
Blank(text) == text = UndefinedText \/ Trim(text) = <<>>

\* data.key of an object that may not have the key
TextOf(data, key) == IF key \in DOMAIN data THEN data[key] ELSE UndefinedText

\* `${room.name} (Copy)`
CopyName(name) == Append(name, "(Copy)")

\* a room row as the table stores it when the insert names none of its
\* columns
RoomDefaults == [exists |-> TRUE, property_id |-> NoProperty,
                 status |-> "vacant", tenant_id |-> NoTenant,
                 name |-> UndefinedText, floor |-> UndefinedText,
                 price |-> DefaultPrice]

\* a key whose value is undefined is left out of the request body
Undefined(key, value) ==
  IF key \in {"name", "floor"} THEN value = UndefinedText
  ELSE IF key = "price" THEN value = UndefinedPrice
  ELSE FALSE

\* the columns a request body carries
Sent(record) ==
  {k \in DOMAIN record \cap DOMAIN RoomDefaults : ~Undefined(k, record[k])}

FreeRoomIds(db) == {r \in RoomIds : ~db[r].exists}
NewRoomId(db) == CHOOSE r \in FreeRoomIds(db) : \A x \in FreeRoomIds(db) : r <= x

\* .from('rooms').insert([record]): the columns sent take the values sent,
\* the others their defaults
InsertRoom(db, record) ==
  [db EXCEPT ![NewRoomId(db)] =
     [k \in DOMAIN RoomDefaults |->
        IF k \in Sent(record) THEN record[k] ELSE RoomDefaults[k]]]

\* .from('rooms').update(patch).eq('id', id)
PatchRoom(db, id, patch) ==
  [r \in RoomIds |->
     IF r = id /\ db[r].exists
       THEN [k \in DOMAIN db[r] |->
               IF k \in Sent(patch) THEN patch[k] ELSE db[r][k]]
       ELSE db[r]]

\* 'Tambah Kamar'
HandleAddRoom ==
  /\ selectedProperty # NoProperty
  /\ ~isLoading
  /\ ~showRoomForm
  /\ editingRoom' = NoRoomSel
  /\ error' = IF version = 2 THEN NoError ELSE error
  /\ showRoomForm' = TRUE
  /\ last' = Call("openForm", NoRoom, NoTenant, "ok", <<>>, FALSE, 0)
  /\ UNCHANGED <<payVars, filterVars, hubVars, flightVars, callVars, edgeVars, version,
                 selectedProperty, dbRooms, dbTenants, rooms, tenants,
                 selectedRoom, selectedTenant, showTenantSelector,
                 showTenantDetails, isLoading>>

\* 'Ubah' on the card of a room
HandleEditRoom(room) ==
  /\ room \in rooms
  /\ ~isLoading
  /\ ~showRoomForm
  /\ editingRoom' = room
  /\ error' = IF version = 2 THEN NoError ELSE error
  /\ showRoomForm' = TRUE
  /\ last' = Call("openForm", room.id, NoTenant, "ok", <<>>, FALSE, 0)
  /\ UNCHANGED <<payVars, filterVars, hubVars, flightVars, callVars, edgeVars, version,
                 selectedProperty, dbRooms, dbTenants, rooms, tenants,
                 selectedRoom, selectedTenant, showTenantSelector,
                 showTenantDetails, isLoading>>

\* onClose of RoomForm: its X and 'Batal' buttons
CloseRoomForm ==
  /\ showRoomForm
  /\ showRoomForm' = FALSE
  /\ editingRoom' = NoRoomSel
  /\ error' = NoError
  /\ last' = Call("closeForm", NoRoom, NoTenant, "ok", <<>>, FALSE, 0)
  /\ UNCHANGED <<payVars, filterVars, hubVars, flightVars, callVars, edgeVars, version,
                 selectedProperty, dbRooms, dbTenants, rooms, tenants,
                 selectedRoom, selectedTenant, showTenantSelector,
                 showTenantDetails, isLoading>>

\* what a text input marked `required` lets the form submit: anything but the
\* empty text, white space included
RequiredTexts == {<<" ">>, <<"1">>}

\* room?.price || 0
PrefilledPrice(room) ==
  IF room.price = UndefinedPrice THEN DefaultPrice ELSE room.price

\* RoomForm's formData when the form is submitted, with the property_id that
\* handleSubmit adds: the keys are number, floor, type, price, status,
\* facilities and property_id (type and facilities go with price here), and
\* there is no key `name`
RoomFormData(room) ==
  [number : RequiredTexts, floor : RequiredTexts, status : RoomStatus,
   price : {PrefilledPrice(room)}, property_id : {selectedProperty}]

SaveFailures == {"write"} \cup LoadFailures

\* the validation of handleFormSubmit; the earlier page has none
NameRequired(data) == version = 2 /\ Blank(TextOf(data, "name"))
FloorRequired(data) == version = 2 /\ Blank(TextOf(data, "floor"))

\* the handler with its two checks taken out
InvalidNever(data) == FALSE

Invalid(data) == NameRequired(data) \/ FloorRequired(data)

\* the body of the update: the earlier page sends the form's data less
\* facilities, the later one name, floor and status
UpdateBody(data) ==
  IF version = 1
    THEN [floor |-> data.floor, price |-> data.price, status |-> data.status,
          property_id |-> data.property_id]
    ELSE [name |-> Trim(TextOf(data, "name")),
          floor |-> Trim(TextOf(data, "floor")), status |-> data.status]

\* the body of the insert
InsertBody(data) ==
  IF version = 1
    THEN [floor |-> data.floor, price |-> data.price, status |-> "vacant",
          property_id |-> data.property_id]
    ELSE [property_id |-> selectedProperty,
          name |-> Trim(TextOf(data, "name")),
          floor |-> Trim(TextOf(data, "floor")), status |-> "vacant"]

\* RoomForm.handleSubmit: it awaits onSubmit, which is handleFormSubmit (later
\* page) or handleRoomFormSubmit (earlier page), and then calls onClose.  The
\* page's handler catches whatever it throws, so onClose runs after every
\* submit and ends it with the form closed and the page's error cleared.
HandleFormSubmit(data, fails) ==
  /\ showRoomForm
  /\ selectedProperty # NoProperty
  /\ data \in RoomFormData(editingRoom)
  /\ Invalid(data) => fails = "none"
  /\ (editingRoom = NoRoomSel /\ ~Invalid(data)) => FreeRoomIds(dbRooms) # {}
  /\ LET edits == editingRoom # NoRoomSel
         writeOk == fails # "write"
         issued == ~Invalid(data)
         success == issued /\ writeOk
         dbR == IF ~success THEN dbRooms
                ELSE IF edits
                  THEN PatchRoom(dbRooms, editingRoom.id, UpdateBody(data))
                ELSE InsertRoom(dbRooms, InsertBody(data))
         st0 == [PageState EXCEPT !.isLoading = TRUE, !.error = NoError]
         st == IF ~issued THEN PageState
               ELSE IF success
                 THEN LoadRooms(selectedProperty, dbR, dbTenants, st0, fails)
               ELSE st0
     IN /\ dbRooms' = dbR
        /\ rooms' = st.rooms
        /\ tenants' = st.tenants
        /\ error' = NoError
        /\ isLoading' = FALSE
        /\ showRoomForm' = FALSE
        /\ editingRoom' = NoRoomSel
        /\ last' = Call("submit", editingRoom.id, NoTenant,
                        IF NameRequired(data) THEN ErrNameRequired
                        ELSE IF FloorRequired(data) THEN ErrFloorRequired
                        ELSE IF success /\ fails = "none" THEN "ok"
                        ELSE IF success THEN ErrLoad
                        ELSE IF version = 1 THEN ErrSaveV1 ELSE ErrSaveV2,
                        IF ~issued THEN <<>>
                        ELSE IF edits
                          THEN IF writeOk THEN <<"update">> ELSE <<"update:failed">>
                        ELSE IF writeOk THEN <<"insert">> ELSE <<"insert:failed">>,
                        success, 0)
  /\ UNCHANGED <<payVars, filterVars, hubVars, flightVars, callVars, edgeVars, version,
                 selectedProperty, dbTenants, selectedRoom, selectedTenant,
                 showTenantSelector, showTenantDetails>>

\* the body of handleDuplicateRoom's insert: tenant_id is not among its keys
DuplicateBody(room) ==
  [property_id |-> room.property_id, name |-> CopyName(room.name),
   floor |-> room.floor, price |-> room.price, status |-> "vacant"]

\* 'Duplikat' on the card of a room (later page)
HandleDuplicateRoom(room, fails) ==
  /\ version = 2
  /\ room \in rooms
  /\ ~isLoading
  /\ FreeRoomIds(dbRooms) # {}
  /\ LET insertOk == fails # "write"
         dbR == IF insertOk THEN InsertRoom(dbRooms, DuplicateBody(room))
                ELSE dbRooms
         st0 == [PageState EXCEPT !.isLoading = TRUE, !.error = NoError]
         st == IF insertOk
                 THEN LoadRooms(selectedProperty, dbR, dbTenants, st0, fails)
                 ELSE [st0 EXCEPT !.error = ErrDuplicate]
     IN /\ dbRooms' = dbR
        /\ rooms' = st.rooms
        /\ tenants' = st.tenants
        /\ error' = st.error
        /\ isLoading' = FALSE
        /\ last' = Call("duplicate", room.id, NoTenant,
                        IF insertOk THEN "ok" ELSE "error",
                        IF insertOk THEN <<"insert">> ELSE <<"insert:failed">>,
                        insertOk, 0)
  /\ UNCHANGED <<payVars, filterVars, hubVars, flightVars, formVars, callVars, edgeVars, version,
                 selectedProperty, dbTenants, selectedRoom, selectedTenant,
                 showTenantSelector, showTenantDetails>>

\* the earlier page: its form, with assignment by calls whose remote calls all
\* succeed (it has no duplicate button and no reachable way to vacate)
NextRoomForm ==
  \/ \E p \in PropertyIds : SelectProperty(p, "none")
  \/ \E room \in rooms : HandleAssignTenant(room)
  \/ \E t \in TenantIds : HandleTenantSelection(t, "none")
  \/ HandleAddRoom
  \/ \E room \in rooms : HandleEditRoom(room)
  \/ CloseRoomForm
  \/ \E data \in RoomFormData(editingRoom), f \in {"none", "write"} :
       HandleFormSubmit(data, f)

\* the later page: assignment and vacating with its form and its duplicate
\* button
NextCatalog ==
  \/ NextOccupancy
  \/ HandleAddRoom
  \/ \E room \in rooms : HandleEditRoom(room)
  \/ CloseRoomForm
  \/ \E data \in RoomFormData(editingRoom), f \in SaveFailures :
       HandleFormSubmit(data, f)
  \/ \E room \in rooms, f \in SaveFailures : HandleDuplicateRoom(room, f)

\* ---- Payments page -------------------------------------------------------
PaymentStatus == {"pending", "overdue", "paid"}
DateNull == "null"
DateSet == "set"
ErrPaymentsLoad == "Failed to load data. Please try again."
ErrPaymentsSave == "Failed to save payment. Please try again."

AbsentPayment == [exists |-> FALSE, property_id |-> NoProperty,
                  status |-> "none", date |-> DateNull,
                  amount |-> 0, dueDate |-> NoDate]
NoPaymentSel == [id |-> NoPayment, property_id |-> NoProperty,
                 status |-> "none", date |-> DateNull,
                 amount |-> 0, dueDate |-> NoDate]

\* what the payment form hands to onSubmit: a Partial<Payment>
FormData == [status : PaymentStatus, date : {"", DateSet},
             amount : Amounts, dueDate : {NoDate} \cup Days]

\* paymentService.getByPropertyId
FetchPayments(db, prop) ==
  {[id |-> p, property_id |-> db[p].property_id, status |-> db[p].status,
    date |-> db[p].date, amount |-> db[p].amount, dueDate |-> db[p].dueDate] :
     p \in {x \in PaymentIds : db[x].exists /\ db[x].property_id = prop}}

\* paymentService.update(id, patch)
PaymentServiceUpdate(db, id, patch) ==
  [p \in PaymentIds |->
     IF p = id /\ db[p].exists
       THEN [db[p] EXCEPT !.property_id = patch.property_id,
                          !.status = patch.status, !.date = patch.date,
                          !.amount = patch.amount, !.dueDate = patch.dueDate]
       ELSE db[p]]

\* paymentService.create(record): the row is stored under a new id
FreePaymentIds(db) == {p \in PaymentIds : ~db[p].exists}
NewPaymentId(db) == CHOOSE p \in FreePaymentIds(db) : \A q \in FreePaymentIds(db) : p <= q
PaymentServiceCreate(db, record) ==
  [db EXCEPT ![NewPaymentId(db)] =
     [exists |-> TRUE, property_id |-> record.property_id,
      status |-> record.status, date |-> record.date,
      amount |-> record.amount, dueDate |-> record.dueDate]]

\* paymentData: the form data with the property and the empty date as null
PaymentData(data) ==
  [property_id |-> selectedProperty, status |-> data.status,
   date |-> IF data.date = "" THEN DateNull ELSE data.date,
   amount |-> data.amount, dueDate |-> data.dueDate]

\* the update sent with the status the form carries
PaidPatchFormStatus(paymentData) == paymentData

\* { ...paymentData, status: 'paid' }: what an existing payment is updated with
PaidPatch(paymentData) == [paymentData EXCEPT !.status = "paid"]

InitPaymentsPage ==
  /\ dbPayments \in [PaymentIds -> {AbsentPayment} \cup
        {[exists |-> TRUE, property_id |-> pr, status |-> st,
          date |-> IF st = "paid" THEN DateSet ELSE DateNull,
          amount |-> am, dueDate |-> due] :
            pr \in PropertyIds, st \in PaymentStatus, am \in Amounts,
            due \in Days}]
  /\ allPayments = {}
  /\ selectedPayment = NoPaymentSel
  /\ showPaymentForm = FALSE
  /\ showPaymentDetails = FALSE
  /\ paymentsLoading = TRUE
  /\ paymentsError = NoError
  /\ lastSubmit = [id |-> NoPayment, updating |-> FALSE, status |-> "none",
                   result |-> "none"]
  /\ dateRange = [start |-> NoDate, end |-> NoDate]

\* the state of a page that is not the one under study
RoomsPageIdle ==
  /\ InitRoomsPage
  /\ version = 2
  /\ \A r \in RoomIds : ~dbRooms[r].exists
  /\ \A t \in TenantIds : dbTenants[t].status = "active"

PaymentsPageIdle ==
  /\ InitPaymentsPage
  /\ \A p \in PaymentIds : ~dbPayments[p].exists

\* useEffect(() => { if (selectedProperty?.id) loadData() }, [selectedProperty])
LoadData(prop, ok) ==
  /\ selectedProperty' = prop
  /\ allPayments' = IF ok THEN FetchPayments(dbPayments, prop) ELSE allPayments
  /\ paymentsError' = IF ok THEN NoError ELSE ErrPaymentsLoad
  /\ paymentsLoading' = FALSE
  /\ UNCHANGED <<dbPayments, selectedPayment, showPaymentForm, showPaymentDetails,
                 lastSubmit>>
  /\ UNCHANGED <<version, dbRooms, dbTenants, rooms, tenants, selectedRoom,
                 selectedTenant, showTenantSelector, showTenantDetails,
                 isLoading, error, last>>
  /\ UNCHANGED restVars

\* the table is rendered when the page is neither loading nor in error
TableShown == ~paymentsLoading /\ paymentsError = NoError

\* 'Catat Pembayaran' on a row whose loaded status is pending or overdue
HandleRecordPayment(payment) ==
  /\ TableShown
  /\ payment \in allPayments
  /\ payment.status \in {"pending", "overdue"}
  /\ selectedPayment' = payment
  /\ showPaymentForm' = TRUE
  /\ showPaymentDetails' = FALSE
  /\ UNCHANGED <<dbPayments, allPayments, paymentsLoading, paymentsError,
                 lastSubmit>>
  /\ UNCHANGED <<roomVars, restVars>>

\* 'Lihat Detail' on a row whose loaded status is paid
HandleViewDetails(payment) ==
  /\ TableShown
  /\ payment \in allPayments
  /\ payment.status = "paid"
  /\ selectedPayment' = payment
  /\ showPaymentDetails' = TRUE
  /\ showPaymentForm' = FALSE
  /\ UNCHANGED <<dbPayments, allPayments, paymentsLoading, paymentsError,
                 lastSubmit>>
  /\ UNCHANGED <<roomVars, restVars>>

\* 'Catat Pembayaran' in the card header: setShowPaymentForm(true)
OpenPaymentForm ==
  /\ selectedProperty # NoProperty
  /\ ~showPaymentForm
  /\ showPaymentForm' = TRUE
  /\ UNCHANGED <<dbPayments, allPayments, selectedPayment, showPaymentDetails,
                 paymentsLoading, paymentsError, lastSubmit>>
  /\ UNCHANGED <<roomVars, restVars>>

\* onClose of the form
ClosePaymentForm ==
  /\ showPaymentForm
  /\ showPaymentForm' = FALSE
  /\ selectedPayment' = NoPaymentSel
  /\ UNCHANGED <<dbPayments, allPayments, showPaymentDetails, paymentsLoading,
                 paymentsError, lastSubmit>>
  /\ UNCHANGED <<roomVars, restVars>>

\* onClose of the details view
ClosePaymentDetails ==
  /\ showPaymentDetails
  /\ selectedPayment # NoPaymentSel
  /\ showPaymentDetails' = FALSE
  /\ selectedPayment' = NoPaymentSel
  /\ UNCHANGED <<dbPayments, allPayments, showPaymentForm, paymentsLoading,
                 paymentsError, lastSubmit>>
  /\ UNCHANGED <<roomVars, restVars>>

HandlePaymentSubmit(data, ok) ==
  /\ showPaymentForm
  /\ selectedProperty # NoProperty
  /\ selectedPayment = NoPaymentSel => FreePaymentIds(dbPayments) # {}
  /\ LET paymentData == PaymentData(data)
         updating == selectedPayment # NoPaymentSel
         id == IF updating THEN selectedPayment.id ELSE NewPaymentId(dbPayments)
         patch == PaidPatch(paymentData)
     IN /\ dbPayments' =
             IF ~ok THEN dbPayments
             ELSE IF updating THEN PaymentServiceUpdate(dbPayments, id, patch)
             ELSE PaymentServiceCreate(dbPayments, paymentData)
        /\ allPayments' =
             IF ~ok THEN allPayments
             ELSE IF updating
               THEN {IF p.id = id
                       THEN [p EXCEPT !.property_id = patch.property_id,
                                      !.status = patch.status,
                                      !.date = patch.date,
                                      !.amount = patch.amount,
                                      !.dueDate = patch.dueDate]
                       ELSE p : p \in allPayments}
             ELSE allPayments \cup
                    {[id |-> id, property_id |-> paymentData.property_id,
                      status |-> paymentData.status, date |-> paymentData.date,
                      amount |-> paymentData.amount,
                      dueDate |-> paymentData.dueDate]}
        /\ showPaymentForm' = IF ok THEN FALSE ELSE showPaymentForm
        /\ selectedPayment' = IF ok THEN NoPaymentSel ELSE selectedPayment
        /\ paymentsError' = IF ok THEN paymentsError ELSE ErrPaymentsSave
        /\ lastSubmit' = [id |-> id, updating |-> updating, status |-> data.status,
                          result |-> IF ok THEN "ok" ELSE "error"]
  /\ UNCHANGED <<showPaymentDetails, paymentsLoading>>
  /\ UNCHANGED <<roomVars, restVars>>

\* the forms that carry the amount and the due date every row was created with
PlainFormData == {d \in FormData : d.amount = MaxAmount /\ d.dueDate = MaxDay}

\* every stored payment has the same amount and the same due date, and the
\* payments are spread over the properties
PlainRows ==
  \A p \in PaymentIds :
    dbPayments[p].exists
      => /\ dbPayments[p].property_id = PropertyOf(p)
         /\ dbPayments[p].amount = MaxAmount
         /\ dbPayments[p].dueDate = MaxDay

NextPayments ==
  \/ \E p \in PropertyIds, ok \in BOOLEAN : LoadData(p, ok)
  \/ \E payment \in allPayments : HandleRecordPayment(payment)
  \/ \E payment \in allPayments : HandleViewDetails(payment)
  \/ OpenPaymentForm
  \/ ClosePaymentForm
  \/ ClosePaymentDetails
  \/ \E data \in PlainFormData, ok \in BOOLEAN : HandlePaymentSubmit(data, ok)

InitRooms == InitRoomsPage /\ PaymentsPageIdle /\ HubIdle /\ FlightIdle /\ EdgeIdle
\* assignment and vacating are studied on the later Rooms page; the earlier
\* one has the same handleTenantSelection and no reachable way to vacate
InitOccupancy == InitRooms /\ version = 2
\* the earlier page with one active tenant
InitRoomForm ==
  /\ InitRooms
  /\ version = 1
  /\ \A t \in TenantIds : dbTenants[t].status = "active" <=> t = 1
\* the later Rooms page mounted
InitCatalog ==
  /\ InitRooms
  /\ version = 2
InitPayments ==
  InitPaymentsPage /\ RoomsPageIdle /\ HubIdle /\ FlightIdle /\ EdgeIdle /\ PlainRows

\* ---- Payments page: totals over a date range -----------------------------
\* dateFilteredPayments: every row while a bound of the range is empty, else
\* the rows whose due date lies between the two bounds; a null due date
\* compares false with both bounds
DateFilteredPayments(payments, range) ==
  {p \in payments :
     \/ range.start = NoDate
     \/ range.end = NoDate
     \/ (p.dueDate # NoDate /\ p.dueDate >= range.start /\ p.dueDate <= range.end)}

\* .reduce((sum, p) => sum + p.amount, 0)
RECURSIVE SumAmount(_)
SumAmount(payments) ==
  IF payments = {} THEN 0
  ELSE LET p == CHOOSE x \in payments : TRUE
       IN p.amount + SumAmount(payments \ {p})

TotalPaid(filtered) == SumAmount({p \in filtered : p.status = "paid"})

\* the pending total taken as everything that is not paid
TotalPendingNotPaid(filtered) == SumAmount({p \in filtered : p.status # "paid"})

TotalPending(filtered) == SumAmount({p \in filtered : p.status = "pending"})
TotalOverdue(filtered) == SumAmount({p \in filtered : p.status = "overdue"})

\* the three totals as the page shows them
dateFilteredPayments == DateFilteredPayments(allPayments, dateRange)
totalPaid == TotalPaid(dateFilteredPayments)
totalPending == TotalPending(dateFilteredPayments)
totalOverdue == TotalOverdue(dateFilteredPayments)

\* onChange of the two date inputs: each sets its own bound
SetDateRangeStart(value) ==
  /\ selectedProperty # NoProperty
  /\ dateRange' = [dateRange EXCEPT !.start = value]
  /\ UNCHANGED <<roomVars, payVars, hubVars, flightVars, formVars, callVars, edgeVars>>

SetDateRangeEnd(value) ==
  /\ selectedProperty # NoProperty
  /\ dateRange' = [dateRange EXCEPT !.end = value]
  /\ UNCHANGED <<roomVars, payVars, hubVars, flightVars, formVars, callVars, edgeVars>>

\* the page opened on the property that holds the payments
LedgerLoad(ok) ==
  \E prop \in PropertyIds :
    /\ \A p \in PaymentIds : dbPayments[p].exists => dbPayments[p].property_id = prop
    /\ LoadData(prop, ok)

\* recording payments of one property
NextLedger ==
  \/ \E ok \in BOOLEAN : LedgerLoad(ok)
  \/ \E payment \in allPayments : HandleRecordPayment(payment)
  \/ ClosePaymentForm
  \/ \E data \in FormData, ok \in BOOLEAN : HandlePaymentSubmit(data, ok)

\* the totals of one property under every date range
NextAggregate ==
  \/ \E ok \in BOOLEAN : LedgerLoad(ok)
  \/ \E value \in {NoDate} \cup Days : SetDateRangeStart(value)
  \/ \E value \in {NoDate} \cup Days : SetDateRangeEnd(value)

\* payments 1..k stored, all of the first property
InitLedger ==
  /\ InitPaymentsPage
  /\ RoomsPageIdle
  /\ HubIdle
  /\ FlightIdle
  /\ EdgeIdle
  /\ \E k \in 1..NumPayments :
       \A p \in PaymentIds :
         /\ dbPayments[p].exists <=> p <= k
         /\ dbPayments[p].exists => dbPayments[p].property_id = PropertyOf(1)

\* ---- NotificationProvider ------------------------------------------------
\* target_property_id of a row: the first notification is global, the others
\* are spread over the properties
NotificationTarget(id) ==
  IF id - 1 \in PropertyIds THEN id - 1 ELSE NoProperty

\* a row: status 'unread' | 'read', target_property_id null or a property
NotificationRows(id) ==
  {[exists |-> TRUE, status |-> st, target |-> NotificationTarget(id)] :
     st \in {"unread", "read"}}

\* notificationService.getAll(): the rows the viewer may see, newest first
RECURSIVE RowsFrom(_, _)
RowsFrom(db, id) ==
  IF id = 0 THEN <<>>
  ELSE (IF db[id].exists THEN <<[id |-> id, status |-> db[id].status]>> ELSE <<>>)
         \o RowsFrom(db, id - 1)
NotificationServiceGetAll(db) == RowsFrom(db, NumNotifications)

\* notificationService.markAsRead(id)
NotificationServiceMarkAsRead(db, id) ==
  [n \in NotificationIds |->
     IF n = id /\ db[n].exists THEN [db[n] EXCEPT !.status = "read"] ELSE db[n]]

\* notificationService.markAllAsRead()
NotificationServiceMarkAllAsRead(db) ==
  [n \in NotificationIds |->
     IF db[n].exists THEN [db[n] EXCEPT !.status = "read"] ELSE db[n]]

\* notificationService.delete(id)
NotificationServiceDelete(db, id) ==
  [n \in NotificationIds |-> IF n = id THEN AbsentNotification ELSE db[n]]

\* notificationService.create(notification): stored under a new id, status
\* 'unread' by the column default
FreeNotificationIds(db) == {n \in NotificationIds : ~db[n].exists}
NewNotificationId(db) ==
  CHOOSE n \in FreeNotificationIds(db) : \A m \in FreeNotificationIds(db) : n <= m
NotificationServiceCreate(db, notification) ==
  [db EXCEPT ![NewNotificationId(db)] =
     [exists |-> TRUE, status |-> "unread", target |-> notification.target]]

\* notifications.map(n => n.id === id ? { ...n, status: 'read' } : n)
MapRead(ns, id) ==
  [i \in DOMAIN ns |-> IF ns[i].id = id THEN [ns[i] EXCEPT !.status = "read"] ELSE ns[i]]

\* notifications.map(n => ({ ...n, status: 'read' }))
MapAllRead(ns) == [i \in DOMAIN ns |-> [ns[i] EXCEPT !.status = "read"]]

\* notifications.filter(n => n.id !== id)
RECURSIVE FilterOut(_, _)
FilterOut(ns, id) ==
  IF ns = <<>> THEN <<>>
  ELSE (IF Head(ns).id = id THEN <<>> ELSE <<Head(ns)>>) \o FilterOut(Tail(ns), id)

\* the count taken over every cached notification
UnreadCountAll(ns) == Len(ns)

\* notifications.filter(n => n.status === 'unread').length
RECURSIVE UnreadCount(_)
UnreadCount(ns) ==
  IF ns = <<>> THEN 0
  ELSE (IF Head(ns).status = "unread" THEN 1 ELSE 0) + UnreadCount(Tail(ns))

unreadCount == UnreadCount(notifications)

\* one run of the effect: the property it closed over, where its
\* setupNotificationsSubscription stands, and whether its cleanup has run
Effect(scope, state, cleaned) == [scope |-> scope, state |-> state, cleaned |-> cleaned]

\* the channels that are subscribed and not unsubscribed
LiveSubscriptions == {i \in DOMAIN effects : effects[i].state = "live"}

\* a run whose cleanup ran while getSession was pending and that has subscribed
\* since: its `unsubscribe.then(cleanup => cleanup())` is the next thing to run
CleanupDue == {i \in DOMAIN effects : effects[i].state = "live" /\ effects[i].cleaned}

\* loadNotifications: no session, skip; read fails, log; else replace the cache
LoadNotifications(ns, db, hasSession, ok) ==
  IF hasSession /\ ok THEN NotificationServiceGetAll(db) ELSE ns

\* the provider mounts with no property selected; the first run of the effect
\* has called getSession
InitHub ==
  /\ session \in BOOLEAN
  /\ \E k \in 0..NumNotifications :
       /\ dbNotifications \in [NotificationIds ->
             UNION {NotificationRows(n) : n \in NotificationIds}
               \cup {AbsentNotification}]
       /\ \A n \in NotificationIds :
            /\ dbNotifications[n].exists <=> n <= k
            /\ dbNotifications[n].exists => dbNotifications[n] \in NotificationRows(n)
  /\ notifications = <<>>
  /\ effects = <<Effect(NoProperty, "pending", FALSE)>>
  /\ hubLast = HubCall("none", "none")
  /\ calls = {}

\* a cleanup whose promise has resolved runs before any other event is handled
Settled == CleanupDue = {}

\* the cleanup of a run: unsubscribe if it has subscribed, else wait for its
\* promise (`unsubscribe?.then(cleanup => cleanup?.())`)
CleanupEffect(e) ==
  IF e.state = "live" THEN [e EXCEPT !.state = "closed", !.cleaned = TRUE]
  ELSE [e EXCEPT !.cleaned = TRUE]

\* selectedProperty changes: React runs the cleanup of the last run of the
\* effect, then the effect again, which calls getSession
HubScopeSwitch(prop) ==
  /\ Settled
  /\ Len(effects) < MaxEffects
  /\ prop # selectedProperty
  /\ selectedProperty' = prop
  /\ effects' = Append([effects EXCEPT ![Len(effects)] = CleanupEffect(@)],
                       Effect(prop, "pending", FALSE))
  /\ UNCHANGED <<session, dbNotifications, notifications, hubLast>>
  /\ UNCHANGED <<version, dbRooms, dbTenants, rooms, tenants, selectedRoom,
                 selectedTenant, showTenantSelector, showTenantDetails,
                 isLoading, error, last>>
  /\ UNCHANGED <<payVars, filterVars, flightVars, formVars, callVars, edgeVars>>

\* getSession answers a run of setupNotificationsSubscription: with a session
\* the channel is subscribed with the filter of the property the run closed over
SetupResolves(i) ==
  /\ Settled
  /\ effects[i].state = "pending"
  /\ effects' = [effects EXCEPT ![i].state = IF session THEN "live" ELSE "none"]
  /\ UNCHANGED <<session, dbNotifications, notifications, hubLast>>
  /\ UNCHANGED <<roomVars, payVars, filterVars, flightVars, formVars, callVars, edgeVars>>

\* the cleanup of a run that subscribed after it was cleaned up
LateCleanup(i) ==
  /\ i \in CleanupDue
  /\ effects' = [effects EXCEPT ![i].state = "closed"]
  /\ UNCHANGED <<session, dbNotifications, notifications, hubLast>>
  /\ UNCHANGED <<roomVars, payVars, filterVars, flightVars, formVars, callVars, edgeVars>>

\* onAuthStateChange: SIGNED_IN with a session calls loadNotifications
SignIn(ok) ==
  /\ Settled
  /\ ~session
  /\ session' = TRUE
  /\ notifications' = LoadNotifications(notifications, dbNotifications, TRUE, ok)
  /\ hubLast' = HubCall("signIn", IF ok THEN "ok" ELSE "failed")
  /\ UNCHANGED <<dbNotifications, effects>>
  /\ UNCHANGED <<roomVars, payVars, filterVars, flightVars, formVars, callVars, edgeVars>>

\* onAuthStateChange: SIGNED_OUT empties the cache
SignOut ==
  /\ Settled
  /\ session
  /\ session' = FALSE
  /\ notifications' = <<>>
  /\ hubLast' = HubCall("signOut", "none")
  /\ UNCHANGED <<dbNotifications, effects>>
  /\ UNCHANGED <<roomVars, payVars, filterVars, flightVars, formVars, callVars, edgeVars>>

\* the filter of a subscription lets a change of the row through
FilterMatches(scope, before, after) ==
  \/ scope = NoProperty
  \/ (after.exists /\ after.target = scope)
  \/ (~after.exists /\ before.exists /\ before.target = scope)

\* another writer changes a row; every live subscription whose filter lets
\* the change through calls loadNotifications
RemoteChange(id, row, ok) ==
  /\ Settled
  /\ row # dbNotifications[id]
  /\ dbNotifications' = [dbNotifications EXCEPT ![id] = row]
  /\ LET delivered == \E i \in LiveSubscriptions :
                        FilterMatches(effects[i].scope, dbNotifications[id], row)
     IN /\ ~(delivered /\ session) => ok
        /\ notifications' =
             IF delivered
               THEN LoadNotifications(notifications, dbNotifications', session, ok)
               ELSE notifications
        /\ hubLast' = HubCall(IF delivered THEN "event" ELSE "none",
                              IF ~(delivered /\ session) THEN "none"
                              ELSE IF ok THEN "ok" ELSE "failed")
  /\ UNCHANGED <<session, effects>>
  /\ UNCHANGED <<roomVars, payVars, filterVars, flightVars, formVars, callVars, edgeVars>>

\* the ids of the notifications the viewer is shown
CachedIds == {notifications[i].id : i \in DOMAIN notifications}

\* a mutating call of the provider: without a session it returns at once; it
\* awaits the service and only then sets the cache; a throw is caught and logged
Mutate(op, ok, db, ns) ==
  /\ Settled
  /\ ~session => ok
  /\ dbNotifications' = IF session /\ ok THEN db ELSE dbNotifications
  /\ notifications' = IF session /\ ok THEN ns ELSE notifications
  /\ hubLast' = HubCall(op, IF ~session THEN "none" ELSE IF ok THEN "ok" ELSE "failed")
  /\ UNCHANGED <<session, effects>>
  /\ UNCHANGED <<roomVars, payVars, filterVars, flightVars, formVars, callVars, edgeVars>>

MarkAsRead(id, ok) ==
  /\ id \in CachedIds
  /\ Mutate("markAsRead", ok, NotificationServiceMarkAsRead(dbNotifications, id),
            MapRead(notifications, id))

MarkAllAsRead(ok) ==
  Mutate("markAllAsRead", ok, NotificationServiceMarkAllAsRead(dbNotifications),
         MapAllRead(notifications))

DeleteNotification(id, ok) ==
  /\ id \in CachedIds
  /\ Mutate("deleteNotification", ok, NotificationServiceDelete(dbNotifications, id),
            FilterOut(notifications, id))

\* the id of a new row is new to the viewer too
CreateNotification(notification, ok) ==
  /\ FreeNotificationIds(dbNotifications) # {}
  /\ NewNotificationId(dbNotifications) \notin CachedIds
  /\ Mutate("createNotification", ok,
            NotificationServiceCreate(dbNotifications, notification),
            <<[id |-> NewNotificationId(dbNotifications), status |-> "unread"]>>
              \o notifications)

\* what createNotification is called with: the row without id and status
NewNotifications ==
  IF FreeNotificationIds(dbNotifications) = {} THEN {}
  ELSE {[target |-> NotificationTarget(NewNotificationId(dbNotifications))]}

MutatingOps == {"markAsRead", "markAllAsRead", "deleteNotification",
                "createNotification"}

NextHub ==
  \/ \E prop \in PropertyIds : HubScopeSwitch(prop)
  \/ \E i \in DOMAIN effects : SetupResolves(i)
  \/ \E i \in DOMAIN effects : LateCleanup(i)
  \/ \E ok \in BOOLEAN : SignIn(ok)
  \/ SignOut
  \/ \E id \in NotificationIds, ok \in BOOLEAN :
       \E row \in NotificationRows(id) \cup {AbsentNotification} :
         RemoteChange(id, row, ok)
  \/ \E id \in NotificationIds, ok \in BOOLEAN : MarkAsRead(id, ok)
  \/ \E ok \in BOOLEAN : MarkAllAsRead(ok)
  \/ \E id \in NotificationIds, ok \in BOOLEAN : DeleteNotification(id, ok)
  \/ \E ok \in BOOLEAN :
       \E notification \in NewNotifications : CreateNotification(notification, ok)

InitNotifications ==
  /\ InitHub
  /\ InitRoomsPage
  /\ RoomsPageIdle
  /\ PaymentsPageIdle
  /\ FlightIdle
  /\ EdgeIdle

\* ---- NotificationProvider: calls whose remote call is under way ----------
\* Each function of the provider awaits getSession, then its service call,
\* and sets the cache after that; between the two the provider handles other
\* events.  A call under way is the function, its argument, the cache the
\* function closed over (`notifications` of the render it was taken from),
\* whether the service call succeeds and what it returns.  At most MaxCalls
\* loads and MaxCalls mutating calls are under way at a time.
MaxCalls == 1

LoadsUnderWay == {c \in calls : c.op = "loadNotifications"}
MutationsUnderWay == {c \in calls : c.op # "loadNotifications"}

ProviderCall(op, id, closure, ok, data) ==
  [op |-> op, id |-> id, closure |-> closure, ok |-> ok, data |-> data]

\* the argument of setNotifications in each mutating function
CacheUpdate(call) ==
  IF call.op = "markAsRead" THEN MapRead(call.closure, call.id)
  ELSE IF call.op = "markAllAsRead" THEN MapAllRead(call.closure)
  ELSE IF call.op = "deleteNotification" THEN FilterOut(call.closure, call.id)
  ELSE <<[id |-> call.id, status |-> "unread"]>> \o call.closure

\* the same update computed from the cache as it is when the answer arrives
\* (setNotifications(prev => ...))
CacheUpdateOnCurrent(call) == CacheUpdate([call EXCEPT !.closure = notifications])

\* what the service call of each mutating function does to the table
ServiceWrite(op, id, db) ==
  IF op = "markAsRead" THEN NotificationServiceMarkAsRead(db, id)
  ELSE IF op = "markAllAsRead" THEN NotificationServiceMarkAllAsRead(db)
  ELSE IF op = "deleteNotification" THEN NotificationServiceDelete(db, id)
  ELSE NotificationServiceCreate(db, [target |-> NotificationTarget(id)])

\* the id a mutating call is about: the one given, none for markAllAsRead,
\* the one the table will give for createNotification
CallIds(op) ==
  IF op = "markAllAsRead" THEN {0}
  ELSE IF op = "createNotification"
    THEN (IF FreeNotificationIds(dbNotifications) = {} THEN {}
          ELSE {NewNotificationId(dbNotifications)} \ CachedIds)
  ELSE CachedIds

\* loadNotifications without its `if (!session) return`
LoadStartedUnchecked(db, hasSession, ok) ==
  {ProviderCall("loadNotifications", 0, <<>>, ok,
                IF ok THEN NotificationServiceGetAll(db) ELSE <<>>)}

\* loadNotifications up to its service call: getSession, return without a
\* session, else notificationService.getAll() is sent
LoadStarted(db, hasSession, ok) ==
  IF hasSession
    THEN {ProviderCall("loadNotifications", 0, <<>>, ok,
                       IF ok THEN NotificationServiceGetAll(db) ELSE <<>>)}
    ELSE {}

\* a mutating function up to its service call: getSession, return without a
\* session, else the write is sent; the cache is not touched
MutationStarts(op, id, ok) ==
  /\ Settled
  /\ op \in MutatingOps
  /\ id \in CallIds(op)
  /\ Cardinality(MutationsUnderWay) < MaxCalls
  /\ ~session => ok
  /\ dbNotifications' = IF session /\ ok THEN ServiceWrite(op, id, dbNotifications)
                        ELSE dbNotifications
  /\ calls' = IF session
                THEN calls \cup {ProviderCall(op, id, notifications, ok, <<>>)}
                ELSE calls
  /\ hubLast' = HubCall(op, IF session THEN "sent" ELSE "none")
  /\ UNCHANGED <<session, notifications, effects>>
  /\ UNCHANGED <<roomVars, payVars, filterVars, flightVars, formVars, edgeVars>>

\* the service call of a mutating function answers: setNotifications with the
\* update of the cache the function closed over, or console.error
MutationAnswers(call) ==
  /\ Settled
  /\ call \in calls
  /\ call.op \in MutatingOps
  /\ calls' = calls \ {call}
  /\ notifications' = IF call.ok THEN CacheUpdate(call) ELSE notifications
  /\ hubLast' = HubCall(call.op, IF call.ok THEN "ok" ELSE "failed")
  /\ UNCHANGED <<session, dbNotifications, effects>>
  /\ UNCHANGED <<roomVars, payVars, filterVars, flightVars, formVars, edgeVars>>

\* onAuthStateChange: SIGNED_IN with a session calls loadNotifications
SignedIn(ok) ==
  /\ Settled
  /\ ~session
  /\ Cardinality(LoadsUnderWay) < MaxCalls
  /\ session' = TRUE
  /\ calls' = calls \cup LoadStarted(dbNotifications, TRUE, ok)
  /\ hubLast' = HubCall("signIn", "sent")
  /\ UNCHANGED <<dbNotifications, notifications, effects>>
  /\ UNCHANGED <<roomVars, payVars, filterVars, flightVars, formVars, edgeVars>>

\* onAuthStateChange: SIGNED_OUT empties the cache; the calls under way go on
SignedOut ==
  /\ Settled
  /\ session
  /\ session' = FALSE
  /\ notifications' = <<>>
  /\ hubLast' = HubCall("signOut", "none")
  /\ UNCHANGED <<dbNotifications, effects, calls>>
  /\ UNCHANGED <<roomVars, payVars, filterVars, flightVars, formVars, edgeVars>>

\* another writer changes a row; every live subscription whose filter lets
\* the change through calls loadNotifications
ChangeEvent(id, row, ok) ==
  /\ Settled
  /\ row # dbNotifications[id]
  /\ Cardinality(LoadsUnderWay) < MaxCalls
  /\ dbNotifications' = [dbNotifications EXCEPT ![id] = row]
  /\ LET delivered == \E i \in LiveSubscriptions :
                        FilterMatches(effects[i].scope, dbNotifications[id], row)
     IN /\ ~(delivered /\ session) => ok
        /\ calls' = IF delivered
                      THEN calls \cup LoadStarted(dbNotifications', session, ok)
                      ELSE calls
        /\ hubLast' = HubCall(IF delivered THEN "event" ELSE "none",
                              IF delivered /\ session THEN "sent" ELSE "none")
  /\ UNCHANGED <<session, notifications, effects>>
  /\ UNCHANGED <<roomVars, payVars, filterVars, flightVars, formVars, edgeVars>>

\* notificationService.getAll() answers: setNotifications(data), or
\* console.error
LoadAnswers(call) ==
  /\ Settled
  /\ call \in calls
  /\ call.op = "loadNotifications"
  /\ calls' = calls \ {call}
  /\ notifications' = IF call.ok THEN call.data ELSE notifications
  /\ hubLast' = HubCall(call.op, IF call.ok THEN "ok" ELSE "failed")
  /\ UNCHANGED <<session, dbNotifications, effects>>
  /\ UNCHANGED <<roomVars, payVars, filterVars, flightVars, formVars, edgeVars>>

\* the provider with the property it mounted with: one run of the effect
NextCalls ==
  \/ \E i \in DOMAIN effects : SetupResolves(i)
  \/ \E ok \in BOOLEAN : SignedIn(ok)
  \/ SignedOut
  \/ \E id \in NotificationIds, ok \in BOOLEAN :
       \E row \in NotificationRows(id) \cup {AbsentNotification} :
         ChangeEvent(id, row, ok)
  \/ \E call \in calls : LoadAnswers(call)
  \/ \E op \in MutatingOps, id \in {0} \cup NotificationIds, ok \in BOOLEAN :
       MutationStarts(op, id, ok)
  \/ \E call \in calls : MutationAnswers(call)

\* ---- loads in flight across a change of property -------------------------
\* a load that has been started: the page and the property id it closed over
Request(page, scope) == [page |-> page, scope |-> scope]

\* Payments page, selectedProperty changes: the effect calls loadData, which
\* sets isLoading, clears the error and sends its reads
PaymentsScopeSwitch(prop) ==
  /\ prop # selectedProperty
  /\ selectedProperty' = prop
  /\ paymentsLoading' = TRUE
  /\ paymentsError' = NoError
  /\ inflight' = inflight \cup {Request("payments", prop)}
  /\ UNCHANGED <<dbPayments, allPayments, selectedPayment, showPaymentForm,
                 showPaymentDetails, lastSubmit>>
  /\ UNCHANGED <<version, dbRooms, dbTenants, rooms, tenants, selectedRoom,
                 selectedTenant, showTenantSelector, showTenantDetails,
                 isLoading, error, last>>
  /\ UNCHANGED <<filterVars, hubVars, formVars, callVars, edgeVars>>

\* the answer to a loadData call: the rows are stored as they come
LoadDataResponse(req, ok) ==
  /\ req \in inflight
  /\ req.page = "payments"
  /\ inflight' = inflight \ {req}
  /\ allPayments' = IF ok THEN FetchPayments(dbPayments, req.scope) ELSE allPayments
  /\ paymentsError' = IF ok THEN paymentsError ELSE ErrPaymentsLoad
  /\ paymentsLoading' = FALSE
  /\ UNCHANGED <<dbPayments, selectedPayment, showPaymentForm, showPaymentDetails,
                 lastSubmit>>
  /\ UNCHANGED <<roomVars, filterVars, hubVars, formVars, callVars, edgeVars>>

\* Rooms page, selectedProperty changes: the effect calls loadRooms
RoomsScopeSwitch(prop) ==
  /\ prop # selectedProperty
  /\ selectedProperty' = prop
  /\ isLoading' = TRUE
  /\ error' = NoError
  /\ inflight' = inflight \cup {Request("rooms", prop)}
  /\ UNCHANGED <<version, dbRooms, dbTenants, rooms, tenants, selectedRoom,
                 selectedTenant, showTenantSelector, showTenantDetails, last>>
  /\ UNCHANGED <<payVars, filterVars, hubVars, formVars, callVars, edgeVars>>

\* the answers to the two reads of a loadRooms call
LoadRoomsResponse(req, fails) ==
  /\ req \in inflight
  /\ req.page = "rooms"
  /\ inflight' = inflight \ {req}
  /\ LET st == LoadRooms(req.scope, dbRooms, dbTenants, PageState, fails)
     IN /\ rooms' = st.rooms
        /\ tenants' = st.tenants
        /\ error' = st.error
        /\ isLoading' = st.isLoading
  /\ last' = Call("load", NoRoom, NoTenant,
                  IF fails = "none" THEN "ok" ELSE "error", <<>>, TRUE, 0)
  /\ UNCHANGED <<version, selectedProperty, dbRooms, dbTenants, selectedRoom,
                 selectedTenant, showTenantSelector, showTenantDetails>>
  /\ UNCHANGED <<payVars, filterVars, hubVars, formVars, callVars, edgeVars>>

NextScope ==
  \/ \E prop \in PropertyIds : PaymentsScopeSwitch(prop)
  \/ \E req \in inflight, ok \in BOOLEAN : LoadDataResponse(req, ok)
  \/ \E prop \in PropertyIds : RoomsScopeSwitch(prop)
  \/ \E req \in inflight, fails \in LoadFailures : LoadRoomsResponse(req, fails)

\* both pages before their first load, with rooms, tenants and payments stored
\* in every property
InitScope ==
  /\ InitRoomsPage
  /\ InitPaymentsPage
  /\ PlainRows
  /\ HubIdle
  /\ FlightIdle
  /\ EdgeIdle

\* ---- the user-details edge function ---------------------------------------
NumUsers == 2
UserIds == 1..NumUsers
NoUser == 0
\* req.headers.get('Authorization') of a request without the header
NoHeader == 0
\* The header's token: token u is the access token of user u, and one more
\* token is no user's
Tokens == 1..(NumUsers + 1)
\* the ids a request may ask for: the users and one id that is nobody's
AskedIds == 1..(NumUsers + 1)

StatusOk == 200
StatusBadRequest == 400
StatusForbidden == 403

\* backoffice_users.role of a user; "none" is a user without a row, for whom
\* .single() returns an error
BackofficeRoles == {"none", "admin", "superadmin"}

\* error messages, word by word
MsgNoHeader == <<"No", "authorization", "header">>
MsgUnauthorized == <<"Unauthorized">>
MsgNotSuperadmin == <<"Unauthorized", "-", "Not", "a", "superadmin">>
MsgInvalidFormat == <<"Invalid", "request", "format">>
\* what req.json() throws on a body that is not JSON
MsgSyntaxError == <<"Unexpected", "end", "of", "JSON", "input">>

\* error.message.includes(word)
Includes(message, word) == \E i \in DOMAIN message : message[i] = word

\* request bodies: not JSON, JSON whose userIds is not an array, JSON whose
\* userIds is an array of ids
Bodies ==
  {[json |-> FALSE, array |-> FALSE, userIds |-> <<>>],
   [json |-> TRUE, array |-> FALSE, userIds |-> <<>>]}
    \cup {[json |-> TRUE, array |-> TRUE, userIds |-> ids] :
            ids \in {<<>>} \cup {<<a>> : a \in AskedIds}
                      \cup {<<a, b>> : a, b \in AskedIds}}

Requests ==
  [method : {"OPTIONS", "GET", "POST"}, authorization : {NoHeader} \cup Tokens,
   body : Bodies]

\* supabase.auth.getUser(token): the user of the token, or none
AuthGetUser(token) == IF token \in UserIds THEN token ELSE NoUser

\* supabase.auth.admin.getUserById(userId), as the { id, email } pushed
Email(id) == <<"user", id>>
RECURSIVE UserDetails(_)
UserDetails(ids) ==
  IF ids = <<>> THEN <<>>
  ELSE (IF Head(ids) \in UserIds
          THEN <<[id |-> Head(ids), email |-> Email(Head(ids))]>>
          ELSE <<>>) \o UserDetails(Tail(ids))

\* the role check letting every user with a row through
RoleAllowedAnyRow(role) == role # "none"

\* roleError || !backofficeUser || backofficeUser.role !== 'superadmin', negated
RoleAllowed(role) == role = "superadmin"

\* the first error thrown inside the try block, <<>> when none is
Thrown(req, roleTable) ==
  IF req.authorization = NoHeader THEN MsgNoHeader
  ELSE IF AuthGetUser(req.authorization) = NoUser THEN MsgUnauthorized
  ELSE IF ~RoleAllowed(roleTable[AuthGetUser(req.authorization)])
    THEN MsgNotSuperadmin
  ELSE IF ~req.body.json THEN MsgSyntaxError
  ELSE IF ~req.body.array THEN MsgInvalidFormat
  ELSE <<>>

\* the handler given to Deno.serve
Serve(req, roleTable) ==
  IF req.method = "OPTIONS"
    THEN [status |-> StatusOk, kind |-> "empty", users |-> <<>>, error |-> <<>>]
  ELSE IF Thrown(req, roleTable) = <<>>
    THEN [status |-> StatusOk, kind |-> "users",
          users |-> UserDetails(req.body.userIds), error |-> <<>>]
  ELSE [status |-> IF Includes(Thrown(req, roleTable), "Unauthorized")
                     THEN StatusForbidden ELSE StatusBadRequest,
        kind |-> "error", users |-> <<>>, error |-> Thrown(req, roleTable)]

\* a request arrives
Receive(req) ==
  /\ request = NoRequest \/ response # NoResponse
  /\ request' = req
  /\ response' = NoResponse
  /\ UNCHANGED <<roomVars, payVars, filterVars, hubVars, flightVars, formVars,
                 callVars, roles>>

\* the function answers it
Respond ==
  /\ request # NoRequest
  /\ response = NoResponse
  /\ response' = Serve(request, roles)
  /\ UNCHANGED <<roomVars, payVars, filterVars, hubVars, flightVars, formVars,
                 callVars, roles, request>>

NextEdge ==
  \/ \E req \in Requests : Receive(req)
  \/ Respond

InitEdge ==
  /\ InitRoomsPage
  /\ RoomsPageIdle
  /\ PaymentsPageIdle
  /\ HubIdle
  /\ FlightIdle
  /\ roles \in [UserIds -> BackofficeRoles]
  /\ request = NoRequest
  /\ response = NoResponse

\* ---- properties ----------------------------------------------------------
\* Every state of the specifications is a state between two handler calls:
\* each action is one whole call, so "after each completed call" is "in every
\* reachable state", and a property of one call is a property of one step.

\* C1: after every completed assign / vacate call, a room names a tenant
\* exactly when that tenant names the room.
C1_PairingHolds ==
  \A r \in RoomIds, t \in TenantIds :
    (dbRooms[r].exists /\ dbRooms[r].tenant_id = t) <=> (dbTenants[t].room_id = r)

\* C2: after every completed assign / vacate call, a room is occupied
\* exactly when its tenant_id is set, and a vacant room has no tenant_id.
C2_StatusMatchesTenant ==
  \A r \in RoomIds :
    dbRooms[r].exists =>
      /\ (dbRooms[r].status = "occupied") <=> (dbRooms[r].tenant_id # NoTenant)
      /\ dbRooms[r].status = "vacant" => dbRooms[r].tenant_id = NoTenant

\* an assignment whose tenant write failed after its room write went through
C2_Witness ==
  /\ last.op = "assign"
  /\ last.writes = <<"room", "tenant:failed">>
  /\ dbRooms[last.room].status = "occupied"
  /\ dbRooms[last.room].tenant_id = last.tenant

\* C3: in a paired write whose room write succeeds and whose tenant write
\* fails, the room row ends the call as it was before the call.
C3_RoomRestoredOnTenantFailure ==
  [][(last'.op \in {"assign", "vacate"} /\ last'.writes = <<"room", "tenant:failed">>)
       => dbRooms'[last'.room] = dbRooms[last'.room]]_vars

\* C4: an assign call on a room whose stored status is not vacant is rejected,
\* issues no write and leaves every room and tenant row as it was.
C4_OccupiedRoomRejected ==
  [][(last'.op = "assign" /\ dbRooms[last'.room].exists
        /\ dbRooms[last'.room].status # "vacant")
       => /\ last'.result = "rejected"
          /\ last'.writes = <<>>
          /\ dbRooms' = dbRooms
          /\ dbTenants' = dbTenants]_vars

\* C5: an assign call with a tenant that already has a room, or is not
\* active, is rejected and writes nothing; and no tenant is ever named by the
\* tenant_id of two rooms.
C5_AssignedTenantRejected ==
  [][/\ (last'.op = "assign"
           /\ (dbTenants[last'.tenant].room_id # NoRoom
                 \/ dbTenants[last'.tenant].status # "active"))
          => (last'.result = "rejected" /\ last'.writes = <<>>
                /\ dbRooms' = dbRooms /\ dbTenants' = dbTenants)
     /\ \A r1, r2 \in RoomIds :
          (dbRooms'[r1].exists /\ dbRooms'[r2].exists
             /\ dbRooms'[r1].tenant_id # NoTenant
             /\ dbRooms'[r1].tenant_id = dbRooms'[r2].tenant_id) => r1 = r2]_vars

C7_VacateClearsBothSides ==
  [][(last'.op = "vacate" /\ last'.result \notin {"declined", "error"}
        /\ dbRooms[last'.room].exists
        /\ dbRooms[last'.room].status = "occupied"
        /\ dbRooms[last'.room].tenant_id # NoTenant)
       => /\ dbRooms'[last'.room].status = "vacant"
          /\ dbRooms'[last'.room].tenant_id = NoTenant
          /\ dbTenants'[dbRooms[last'.room].tenant_id].room_id = NoRoom]_vars

\* C8: an assign call of an active tenant without room to a vacant room, with
\* both writes succeeding, leaves the room occupied by the tenant and the tenant
\* in the room, and changes no other room or tenant.
C8_AssignSetsBothSides ==
  [][(last'.op = "assign" /\ last'.result = "ok"
        /\ dbRooms[last'.room].exists
        /\ dbRooms[last'.room].status = "vacant"
        /\ dbTenants[last'.tenant].status = "active"
        /\ dbTenants[last'.tenant].room_id = NoRoom)
       => /\ dbRooms'[last'.room].status = "occupied"
          /\ dbRooms'[last'.room].tenant_id = last'.tenant
          /\ dbTenants'[last'.tenant].room_id = last'.room
          /\ \A r \in RoomIds \ {last'.room} : dbRooms'[r] = dbRooms[r]
          /\ \A t \in TenantIds \ {last'.tenant} : dbTenants'[t] = dbTenants[t]]_vars

\* the first assignment has gone through: one room occupied, one tenant in it,
\* and a second room and a second tenant left as they were
C8_Witness ==
  /\ last.op = "assign"
  /\ last.result = "ok"
  /\ dbRooms[last.room].status = "occupied"
  /\ dbRooms[last.room].tenant_id = last.tenant
  /\ dbTenants[last.tenant].room_id = last.room
  /\ \E r \in RoomIds \ {last.room} : dbRooms[r].exists /\ dbRooms[r].status = "vacant"
  /\ \A t \in TenantIds \ {last.tenant} : dbTenants[t].room_id = NoRoom
  /\ \E t \in TenantIds \ {last.tenant} : dbTenants[t].status = "active"

\* the tenants whose room_id names the room, in the table
ReferencingTenants(roomId) == {t \in TenantIds : dbTenants[t].room_id = roomId}

\* C9: a delete call removes the room only if it is vacant and no tenant
\* names it; if a tenant names it, the call is rejected with the number of
\* those tenants, no delete is issued and the room stays.
C9_DeleteOnlyVacantUnreferenced ==
  [][last'.op = "delete"
       => /\ (dbRooms[last'.room].exists /\ ~dbRooms'[last'.room].exists)
               => (dbRooms[last'.room].status = "vacant"
                     /\ ReferencingTenants(last'.room) = {})
          /\ (dbRooms[last'.room].exists /\ ReferencingTenants(last'.room) # {})
               => /\ last'.result = "rejected"
                  /\ last'.count = Cardinality(ReferencingTenants(last'.room))
                  /\ last'.writes = <<>>
                  /\ dbRooms'[last'.room] = dbRooms[last'.room]]_vars

\* the order of the payment statuses: pending, overdue, paid
StatusRank(st) == IF st = "paid" THEN 2 ELSE IF st = "overdue" THEN 1 ELSE 0

\* C10: no step takes a payment, in the table or among the loaded rows, from
\* paid to pending or overdue, or from overdue to pending.
C10_StatusNeverGoesBack ==
  [][/\ \A p \in PaymentIds :
          (dbPayments[p].exists /\ dbPayments'[p].exists)
            => StatusRank(dbPayments'[p].status) >= StatusRank(dbPayments[p].status)
     /\ \A a \in allPayments, b \in allPayments' :
          a.id = b.id
            => StatusRank(b.status) >= StatusRank(a.status)]_vars

\* a payment has been recorded from a form that carried another status
C10_Witness ==
  /\ lastSubmit.updating
  /\ lastSubmit.result = "ok"
  /\ lastSubmit.status # "paid"
  /\ dbPayments[lastSubmit.id].status = "paid"
  /\ \E a \in allPayments : a.id = lastSubmit.id /\ a.status = "paid"

\* a handlePaymentSubmit call, whatever the form carries and the service answers
SubmitCall == \E data \in FormData, ok \in BOOLEAN : HandlePaymentSubmit(data, ok)

\* C11: a submit for a selected payment that is already paid in the table is
\* rejected and leaves the table as it was, whichever way the form was opened.
C11_PaidPaymentRejected ==
  [][(/\ SubmitCall
      /\ selectedPayment # NoPaymentSel
      /\ dbPayments[selectedPayment.id].exists
      /\ dbPayments[selectedPayment.id].status = "paid")
       => /\ lastSubmit'.result = "rejected"
          /\ dbPayments' = dbPayments]_vars

\* the date ranges with both bounds filled in that hold a due date
RangesHolding(due) ==
  {r \in [start : Days, end : Days] : r.start <= due /\ due <= r.end}

\* C12: recording a pending payment that is loaded as the table holds it, with
\* the service accepting the update, leaves it paid with a paid date, and
\* under every range holding its due date the pending total goes down by its
\* amount, the paid total goes up by its amount and the overdue total stays.
C12_RecordMovesPendingToPaid ==
  [][(/\ SubmitCall
      /\ lastSubmit'.result = "ok"
      /\ selectedPayment \in allPayments
      /\ selectedPayment \in FetchPayments(dbPayments, selectedProperty)
      /\ selectedPayment.status = "pending")
       => /\ dbPayments'[selectedPayment.id].status = "paid"
          /\ dbPayments'[selectedPayment.id].date # DateNull
          /\ \A r \in RangesHolding(selectedPayment.dueDate) :
               LET before == DateFilteredPayments(allPayments, r)
                   after == DateFilteredPayments(allPayments', r)
               IN /\ TotalPending(after) = TotalPending(before) - selectedPayment.amount
                  /\ TotalPaid(after) = TotalPaid(before) + selectedPayment.amount
                  /\ TotalOverdue(after) = TotalOverdue(before)]_vars

\* C13: the three totals add up to the sum of the amounts of the date-filtered
\* payments, and each of these payments has exactly one of the three statuses.
C13_TotalsPartitionFiltered ==
  /\ totalPaid + totalPending + totalOverdue = SumAmount(dateFilteredPayments)
  /\ \A p \in dateFilteredPayments :
       Cardinality({st \in PaymentStatus : p.status = st}) = 1

\* a range with both bounds set keeps an overdue payment and drops another row
C13_Witness ==
  /\ dateRange.start # NoDate
  /\ dateRange.end # NoDate
  /\ \E p \in dateFilteredPayments : p.status = "overdue"
  /\ allPayments \ dateFilteredPayments # {}
  /\ totalOverdue > 0

\* C14: when a bound of the range is filled in, only payments whose due date
\* respects every filled bound are summed (exactly those between the bounds
\* when both are filled); all payments are summed only when both are empty.
C14_RangeRestrictsSum ==
  LET start == dateRange.start
      end == dateRange.end
  IN /\ (start # NoDate \/ end # NoDate)
          => \A p \in dateFilteredPayments :
               /\ start # NoDate => p.dueDate >= start
               /\ end # NoDate => p.dueDate <= end
     /\ (start # NoDate /\ end # NoDate)
          => dateFilteredPayments =
               {p \in allPayments : start <= p.dueDate /\ p.dueDate <= end}
     /\ (start = NoDate /\ end = NoDate) => dateFilteredPayments = allPayments

\* C15: the unread count the provider hands out is the number of cached
\* notifications whose status is unread, in every state.
C15_UnreadCountMatchesCache ==
  unreadCount = Cardinality({i \in DOMAIN notifications :
                               notifications[i].status = "unread"})

\* one of two cached notifications has been marked as read
C15_Witness ==
  /\ hubLast.op = "markAsRead"
  /\ hubLast.remote = "ok"
  /\ \E i, j \in DOMAIN notifications :
       notifications[i].status = "read" /\ notifications[j].status = "unread"
  /\ unreadCount = 1

\* C16: at no time are two subscriptions live: the subscription of the
\* previous run of the effect is gone before the next one is made.
C16_AtMostOneLiveSubscription == Cardinality(LiveSubscriptions) <= 1

\* C17: a sign-out leaves no subscription live and the cache empty.
C17_SignOutTearsDown ==
  [][(session /\ ~session') => (LiveSubscriptions' = {} /\ notifications' = <<>>)]_vars

\* C18: a sign-in whose read succeeds leaves the cache equal to the stored
\* notifications, and once no getSession call of the effect is pending exactly
\* one subscription is live, made for the selected property.
C18_SignInLoadsAndSubscribes ==
  [][(~session /\ session')
       => /\ hubLast'.remote = "ok"
               => notifications' = NotificationServiceGetAll(dbNotifications')
          /\ (\A i \in DOMAIN effects' : effects'[i].state # "pending")
               => /\ Cardinality(LiveSubscriptions') = 1
                  /\ \A i \in LiveSubscriptions' : effects'[i].scope = selectedProperty']_vars

\* a mutating call of the provider whose remote write has the given outcome
MutatingCall(ok) ==
  \/ \E id \in NotificationIds : MarkAsRead(id, ok)
  \/ MarkAllAsRead(ok)
  \/ \E id \in NotificationIds : DeleteNotification(id, ok)
  \/ \E notification \in NewNotifications : CreateNotification(notification, ok)

\* C19: a mutating call whose remote write fails leaves the cache as it was
\* before the call and ends with the error handed to its caller.
C19_FailedWriteRollsBackAndSurfaces ==
  [][(session /\ MutatingCall(FALSE))
       => /\ notifications' = notifications
          /\ hubLast'.outcome = "rejected"]_vars

\* the rows a page holds that belong to another property than the selected one
ForeignRows ==
  {p \in allPayments : p.property_id # selectedProperty}
    \cup {r \in rooms : r.property_id # selectedProperty}
    \cup {t \in tenants : t.property_id # selectedProperty}

\* an answer arrives for a load started under another property than the
\* one selected now
StaleResponse ==
  \E req \in inflight :
    /\ req.scope # selectedProperty
    /\ \/ \E ok \in BOOLEAN : LoadDataResponse(req, ok)
       \/ \E fails \in LoadFailures : LoadRoomsResponse(req, fails)

\* C20: the answer to a load started under another property than the selected
\* one is dropped, and once no load is in flight no page holds rows of another
\* property than the selected one.
C20_StaleResponseDiscarded ==
  [][/\ StaleResponse
          => (allPayments' = allPayments /\ rooms' = rooms /\ tenants' = tenants)
     /\ inflight' = {} => ForeignRows' = {}]_vars

\* a call of handleDuplicateRoom
DuplicateCall ==
  \E room \in rooms, f \in SaveFailures : HandleDuplicateRoom(room, f)

\* C21: a duplicateRoom call that succeeds inserts exactly one room; the new
\* room is vacant with no tenant, has the source room's property, floor and
\* price (standing for type, price and facilities) and the source's name with
\* the copy suffix; every room stored before, the source among them, and
\* every tenant is as before.
C21_DuplicateCopiesDescriptive ==
  [][(DuplicateCall /\ last'.result = "ok") =>
       LET source == dbRooms[last'.room]
           added == {r \in RoomIds : dbRooms'[r].exists /\ ~dbRooms[r].exists}
       IN /\ Cardinality(added) = 1
          /\ \A n \in added :
               /\ dbRooms'[n].status = "vacant"
               /\ dbRooms'[n].tenant_id = NoTenant
               /\ dbRooms'[n].property_id = source.property_id
               /\ dbRooms'[n].name = CopyName(source.name)
               /\ dbRooms'[n].floor = source.floor
               /\ dbRooms'[n].price = source.price
          /\ \A r \in RoomIds : dbRooms[r].exists => dbRooms'[r] = dbRooms[r]
          /\ dbTenants' = dbTenants]_vars

\* C22: a room that is created is vacant; a stored room's status turns to
\* occupied only in an assign call on that room, and turns from occupied to
\* another status only in a vacate call on that room.
C22_StatusOnlyByAssignAndVacate ==
  [][\A r \in RoomIds :
       /\ (~dbRooms[r].exists /\ dbRooms'[r].exists) =>
            dbRooms'[r].status = "vacant"
       /\ (dbRooms[r].exists /\ dbRooms'[r].exists
             /\ dbRooms[r].status # "occupied"
             /\ dbRooms'[r].status = "occupied") =>
            (last'.op = "assign" /\ last'.room = r)
       /\ (dbRooms[r].exists /\ dbRooms'[r].exists
             /\ dbRooms[r].status = "occupied"
             /\ dbRooms'[r].status # "occupied") =>
            (last'.op = "vacate" /\ last'.room = r)]_vars

\* C23: when a mutating function of the provider sends its remote write, the
\* cache already holds the function's update (of the cache it was called on).
C23_LocalUpdateBeforeRemoteWrite ==
  [][\A call \in calls' \ calls :
       call.op \in MutatingOps => notifications' = CacheUpdate(call)]_vars

\* a call of one of the paired writes
PairedCall ==
  \/ \E t \in TenantIds, f \in PairFailures : HandleTenantSelection(t, f)
  \/ \E room \in rooms \cup {selectedRoom}, cf \in BOOLEAN, f \in PairFailures :
       HandleVacateRoom(room, cf, f)

\* C24: in an assign or vacate call the tenant write is sent only after the
\* room write has succeeded, the tenant row changes only then, and the reload
\* is sent exactly when both writes have succeeded; a call in which a write
\* fails leaves the loaded rooms and tenants as they were.
C24_PairedWritesSequentialThenReload ==
  [][PairedCall =>
       LET w == last'.writes
       IN /\ Len(w) = 2 => w[1] = "room"
          /\ dbTenants' # dbTenants => w = <<"room", "tenant">>
          /\ last'.reloaded <=> w = <<"room", "tenant">>
          /\ w # <<"room", "tenant">> => (rooms' = rooms /\ tenants' = tenants)]_vars

\* an assign whose room write succeeded and whose tenant write failed
C24_Witness ==
  /\ last.op = "assign"
  /\ last.writes = <<"room", "tenant:failed">>
  /\ ~last.reloaded
  /\ dbRooms[last.room].status = "occupied"
  /\ \E room \in rooms : room.id = last.room /\ room.status = "vacant"

\* a change of a row by another writer
RemoteChangeStep ==
  \E id \in NotificationIds, ok \in BOOLEAN :
    \E row \in NotificationRows(id) \cup {AbsentNotification} :
      RemoteChange(id, row, ok)

\* the rows whose change the viewer of the selected property is to hear of:
\* the ones targeted at that property and the global ones
ChangedVisible ==
  {n \in NotificationIds :
     /\ dbNotifications'[n] # dbNotifications[n]
     /\ NotificationTarget(n) \in {NoProperty, selectedProperty}}

\* C25: with a session and the subscription of the selected property live, a
\* change of a row targeted at that property or at no property makes the
\* provider reload, and a reload that succeeds leaves the cache equal to the
\* stored rows.
C25_ChangeEventReloads ==
  [][(RemoteChangeStep /\ session
        /\ (\E i \in LiveSubscriptions : effects[i].scope = selectedProperty)
        /\ ChangedVisible # {}) =>
       /\ hubLast'.op = "event"
       /\ hubLast'.remote = "ok" =>
            notifications' = NotificationServiceGetAll(dbNotifications')]_vars

\* a mutating function of the provider is called
MutationCall ==
  \E op \in MutatingOps, id \in {0} \cup NotificationIds, ok \in BOOLEAN :
    MutationStarts(op, id, ok)

\* a change of a row by another writer, which calls loadNotifications through
\* every subscription it is delivered to
ChangeEventStep ==
  \E id \in NotificationIds, ok \in BOOLEAN :
    \E row \in NotificationRows(id) \cup {AbsentNotification} :
      ChangeEvent(id, row, ok)

\* C26: without a session a call of markAsRead, markAllAsRead,
\* deleteNotification or createNotification sends no remote call, leaves no
\* call under way, and leaves the table and the cache as they were; a call of
\* loadNotifications sends no read, leaves no call under way and leaves the
\* cache as it was.
C26_NoSessionAborts ==
  [][~session =>
       /\ MutationCall =>
            /\ calls' = calls
            /\ dbNotifications' = dbNotifications
            /\ notifications' = notifications
            /\ hubLast'.remote = "none"
       /\ ChangeEventStep =>
            /\ calls' = calls
            /\ notifications' = notifications
            /\ hubLast'.remote = "none"]_vars

\* a change was delivered after sign-out, while the cache held rows, and
\* loadNotifications returned without reading
C26_Witness ==
  /\ ~session
  /\ hubLast = HubCall("event", "none")
  /\ notifications # <<>>
  /\ calls = {}

\* a submit of the room form with data the handler is to reject: name or
\* floor missing or blank
BlankSubmit ==
  \E data \in RoomFormData(editingRoom), f \in SaveFailures :
    /\ HandleFormSubmit(data, f)
    /\ Blank(TextOf(data, "name")) \/ Blank(TextOf(data, "floor"))

\* C27: a submit of the room form with a missing or blank name or floor ends
\* with an error set, sends no insert and no update, and leaves the stored
\* rooms as they were.
C27_BlankFieldBlocked ==
  [][BlankSubmit =>
       /\ error' # NoError
       /\ last'.writes = <<>>
       /\ dbRooms' = dbRooms]_vars

\* C28: when the write of a mutating call answers after a reload has
\* answered (the reload being the last thing the provider saw), every
\* notification of the reload is still cached afterwards, except the one the
\* call deleted.
C28_UpdateKeepsNewerReload ==
  [][\A call \in calls :
       (MutationAnswers(call) /\ call.ok
          /\ hubLast = HubCall("loadNotifications", "ok")) =>
         \A i \in DOMAIN notifications :
           \/ \E j \in DOMAIN notifications' : notifications'[j].id = notifications[i].id
           \/ (call.op = "deleteNotification" /\ notifications[i].id = call.id)]_vars

\* C29: without a session the cache is empty.
C29_CacheEmptyWhileSignedOut == ~session => notifications = <<>>

\* the request in hand passes the three checks of the caller: it carries
\* the header, the token is a user's, and that user's role is superadmin
CallerIsSuperadmin ==
  /\ request.authorization # NoHeader
  /\ AuthGetUser(request.authorization) # NoUser
  /\ roles[AuthGetUser(request.authorization)] = "superadmin"

\* C30: to a request that is not OPTIONS the function answers with user
\* details (status 200, ids and emails) only if the caller passes the three
\* checks; to every other such request it answers with an error and no user
\* details, with status 403 if the message contains 'Unauthorized' and 400
\* otherwise: 400 without the header, 403 for a token that is nobody's or a
\* caller who is not superadmin.
C30_DetailsOnlyForSuperadmin ==
  (response # NoResponse /\ request.method # "OPTIONS") =>
    /\ (response.status = StatusOk \/ response.kind = "users"
          \/ response.users # <<>>) => CallerIsSuperadmin
    /\ ~CallerIsSuperadmin =>
         /\ response.kind = "error"
         /\ response.users = <<>>
         /\ response.error # <<>>
         /\ response.status =
              IF Includes(response.error, "Unauthorized")
                THEN StatusForbidden ELSE StatusBadRequest
         /\ response.status =
              IF request.authorization = NoHeader
                THEN StatusBadRequest ELSE StatusForbidden

\* a superadmin asked for two users and got both
C30_Witness ==
  /\ request.method = "POST"
  /\ CallerIsSuperadmin
  /\ response.status = StatusOk
  /\ Len(response.users) = 2

SpecOccupancy == InitOccupancy /\ [][NextOccupancy]_vars
SpecCatalog == InitCatalog /\ [][NextCatalog]_vars
SpecRoomForm == InitRoomForm /\ [][NextRoomForm]_vars
SpecRooms == InitRooms /\ [][NextRooms]_vars
SpecPayments == InitPayments /\ [][NextPayments]_vars
SpecLedger == InitLedger /\ [][NextLedger]_vars
SpecAggregate == InitLedger /\ [][NextAggregate]_vars
SpecHub == InitNotifications /\ [][NextHub]_vars
SpecCalls == InitNotifications /\ [][NextCalls]_vars
SpecEdge == InitEdge /\ [][NextEdge]_vars
SpecScope == InitScope /\ [][NextScope]_vars
====
